---------------------------- MODULE Spec2Model ----------------------------
(***************************************************************************)
(* Model of the capture session of excalidraw-recording: the useRecorder   *)
(* hook (src/unnamed/part_010, earlier revision src/src/hooks/             *)
(* useRecorder.ts), the BoardPage handlers that feed it its selection      *)
(* area, and the browser objects it drives (MediaRecorder, setInterval,    *)
(* Date.now).                                                              *)
(*                                                                         *)
(* The compositor tick (drawFrame), the media devices (useMediaDevices)     *)
(* and the settings (useSettings) that feed it are part of the model; each *)
(* specification at the end drives the part of the program its name says.  *)
(*                                                                         *)
(* Hook operations are callable in any order, as the hook exports them.    *)
(* Every MediaRecorder created by startRecording is identified by the      *)
(* number of the startRecording call that created it.                      *)
(***************************************************************************)
EXTENDS Integers, Sequences, FiniteSets, TLC

(* ------------------------------ bounds --------------------------------- *)

\* startRecording calls that get past the selection guard
MaxStarts == 2

\* timeslice chunks one encoder emits before it is stopped
MaxChunks == 1

\* the wall clock advances in steps of StepMs up to MaxNow milliseconds
MaxNow == 1000

StepMs == 500

\* canvases Excalidraw has mounted in the container
MaxCanvases == 2

\* getUserMedia requests made by requestCamera
MaxCameraRequests == 2

\* SpeechRecognition objects made by the start of useSpeechToText
MaxInstances == 2

\* result events the recognition objects deliver
MaxResults == 3

\* words of a caption text
MaxWords == 3

\* what measureText reports for a space, in tenths of a pixel
SpaceWidth == 50

(* --------------------------- program constants ------------------------- *)

\* getSupportedMimeType: the preference list
types ==
  << "video/mp4;codecs=avc1.42E01E,mp4a.40.2",
     "video/mp4",
     "video/webm;codecs=vp9,opus",
     "video/webm;codecs=vp8,opus",
     "video/webm;codecs=vp9",
     "video/webm;codecs=vp8",
     "video/webm" >>

\* getSupportedMimeType: the value returned when the loop finds nothing
Baseline == "video/webm"

\* Math.floor(ms / 1000)
MsPerSecond == 1000

\* (settingsRef?.current?.videoBitrate ?? 5) * 1_000_000
BitsPerMegabit == 1000000

\* useState<Blob | null>(null)
NoBlob == [chunks |-> << >>, type |-> "null"]

\* useState<SelectionArea | null>(null)
NoArea == [width |-> 0, height |-> 0]

\* areas the selection UI can hand to handleConfirmArea (width, height > 10)
Areas == { [width |-> 1280, height |-> 720] }

\* what MediaRecorder.isTypeSupported may answer true for, per platform
SupportedSets == { {}, {"video/webm;codecs=vp8", "video/webm"} }

\* useRef<HTMLCanvasElement | null>(null)
NoCanvas == [width |-> 0, height |-> 0]

\* const maxDim = 1920
maxDim == 1920

\* window.devicePixelRatio, as a fraction
Ratio(n, d) == [num |-> n, den |-> d]

\* DEFAULT_SETTINGS, the fields the recorder reads
DEFAULT_SETTINGS ==
  [ recordingFps |-> 30, videoBitrate |-> 5, cursorEffect |-> "highlight",
    showCameraInRecording |-> TRUE ]

\* AppSettings: the values the settings dialog offers for those fields
SettingValues ==
  [ recordingFps |-> {30, 60}, videoBitrate |-> {5, 8},
    cursorEffect |-> {"none", "highlight"},
    showCameraInRecording |-> BOOLEAN ]

\* captionRef.current: speech.isListening and speech.transcript
NoCaption == [enabled |-> FALSE, text |-> ""]

CaptionTexts == {"", "hello world"}

\* a frame interval's callback: the drawFrame of the render that created
\* it, with the selectionArea and cameraEnabled of that render, and the
\* rate the interval runs at
NoClosure == [selectionArea |-> NoArea, cameraEnabled |-> FALSE, fps |-> 0]

\* the layers drawn after the source canvases
OverlayLayers == {"cursor", "camera", "caption"}

\* every answer MediaRecorder.isTypeSupported can give over the list
AllSupportedSets == SUBSET { types[i] : i \in 1..Len(types) }

Sessions == 1..MaxStarts

\* useState(""): no caption text
NoText == [kind |-> "none", n |-> 0]

\* the n-th result event's text, a completed sentence or a partial one
Final(n) == [kind |-> "final", n |-> n]

Interim(n) == [kind |-> "interim", n |-> n]

Instances == 1..MaxInstances

\* no caption laid out
NoBox == [boxX |-> 0, boxY |-> 0, boxWidth |-> 0, boxHeight |-> 0]

\* no caption to lay out: a buffer and no words
NoCaptionInput ==
  [width |-> 0, height |-> 0, captionX |-> 0, captionY |-> 0,
   captionFontSize |-> "medium", words |-> << >>]

VARIABLES
  \* useRecorder: useState
  isRecording, isPaused, duration, recordedBlob, mimeType,
  \* useRecorder: useRef
  mediaRecorderRef, chunksRef, frameIntervalRef, durationIntervalRef,
  startTimeRef, pausedDurationRef,
  \* BoardPage: useState
  confirmedSelection, isSelectingArea,
  \* browser: live setInterval handles, Date.now(), isTypeSupported
  frameTimers, durationTimers, now, supported,
  \* browser: MediaRecorder objects, by creating call
  recState, recMime, stopPending,
  \* history: number of startRecording calls past the guard
  starts,
  \* history: chunks each encoder delivered, stop events each encoder fired,
  \* encoders that stopped by themselves, encoders stopped by stopRecording
  emitted, onstopCount, failed, stopCalled,
  \* history: time the current encoder has spent paused
  pausedMs,
  \* history: the step taken last (its name, and the encoder of an encoder
  \* event)
  lastOp,
  \* useRecorder: useRef
  recordingCanvasRef, cameraVideoRef,
  \* browser: window.devicePixelRatio, the callback of each frame interval,
  \* the frame rate and bitrate each encoder was created with
  devicePixelRatio, frameClosure, recFps, recBitrate,
  \* useSettings: useState
  settings,
  \* useMediaDevices: useState, useRef, getUserMedia requests in flight
  cameraEnabled, cameraStream, cameraRef, cameraPending,
  \* BoardPage: captionRef, mousePositionRef mapped inside the buffer or not
  captionRef, mouseInside,
  \* browser: canvases in the Excalidraw container, those of them drawImage
  \* throws for, overlay layers whose canvas calls throw
  canvases, tainted, broken,
  \* history: getUserMedia requests made
  cameraRequests,
  \* useSpeechToText: useState
  transcript, isListening,
  \* useSpeechToText: useRef
  recognitionRef, restartingRef, clearTimerRef,
  \* browser: the state of each SpeechRecognition object, the objects whose
  \* start event is queued, live setTimeout handles
  recogState, startEvent, clearTimers,
  \* history: recognition objects made, result events delivered, objects
  \* the hook called abort() or stop() on
  instances, results, halted,
  \* browser: camera streams whose tracks are live
  liveTracks,
  \* drawFrame: what the caption layer is given (the buffer's size, the
  \* caption's position in the buffer and the measured width of each word, in
  \* tenths of a pixel) and the background rectangle it fills
  captionInput, captionBox,
  \* history: the draw calls of the step taken last, in order, each with
  \* its outcome
  drawn

hookVars ==
  << isRecording, isPaused, duration, recordedBlob, mimeType,
     mediaRecorderRef, chunksRef, frameIntervalRef, durationIntervalRef,
     startTimeRef, pausedDurationRef >>

pageVars == << confirmedSelection, isSelectingArea >>

browserVars ==
  << frameTimers, durationTimers, now, supported, recState, recMime,
     stopPending >>

historyVars ==
  << starts, emitted, onstopCount, failed, stopCalled, pausedMs,
     lastOp >>

\* devices, settings and page content
mediaVars ==
  << cameraVideoRef, devicePixelRatio, settings, cameraEnabled, cameraStream,
     cameraRef, cameraPending, captionRef, mouseInside, canvases, tainted,
     broken, cameraRequests, liveTracks >>

speechVars ==
  << transcript, isListening, recognitionRef, restartingRef, clearTimerRef,
     recogState, startEvent, clearTimers, instances, results, halted >>

\* what the compositor reads besides the session
captionVars == << captionInput, captionBox >>

overlayVars == << mediaVars, speechVars, captionVars >>

\* what startRecording, pauseRecording, resumeRecording and stopRecording
\* set up for the compositor
frameVars == << recordingCanvasRef, frameClosure, recFps, recBitrate >>

vars ==
  << hookVars, pageVars, browserVars, historyVars, overlayVars, frameVars,
     drawn >>

(* ------------------------------ helpers -------------------------------- *)

\* window.setInterval returns a handle no live interval has
FreshHandle(live) ==
  CHOOSE h \in 1..(Cardinality(live) + 1) :
    h \notin live /\ \A g \in 1..(h - 1) : g \in live

\* for (const type of types) if (isTypeSupported(type)) return type
RECURSIVE FirstSupported(_, _)
FirstSupported(i, sup) ==
  IF i > Len(types) THEN Baseline
  ELSE IF types[i] \in sup THEN types[i]
  ELSE FirstSupported(i + 1, sup)

\* the preference list searched from its end
getSupportedMimeTypeLast(sup) ==
  IF \E i \in 1..Len(types) : types[i] \in sup
  THEN types[CHOOSE i \in 1..Len(types) :
               types[i] \in sup /\ \A j \in (i + 1)..Len(types) : types[j] \notin sup]
  ELSE Baseline

getSupportedMimeType(sup) == FirstSupported(1, sup)

\* new MediaRecorder(stream, {mimeType}) throws NotSupportedError for a
\* type isTypeSupported rejects
ConstructorThrows(type, sup) == type \notin sup

\* Math.floor((Date.now() - startTimeRef - pausedDurationRef) / 1000)
DurationAt(t, startedAt, pausedAcc) == (t - startedAt - pausedAcc) \div MsPerSecond

\* chunksRef.current.push(event.data) when event.data.size > 0
PushChunk(chunks, chunk) ==
  IF chunk.size > 0 THEN Append(chunks, chunk) ELSE chunks

\* new Blob(chunksRef.current, { type: selectedMimeType })
MakeBlob(chunks, type) == [chunks |-> chunks, type |-> type]

NonEmpty(chunk) == chunk.size > 0

Min(a, b) == IF a < b THEN a ELSE b

\* window.devicePixelRatio || 1
EffectiveRatio(dpr) == IF dpr.num = 0 THEN Ratio(1, 1) ELSE dpr

\* canvas.width = Math.min(length * dpr, maxDim): the attribute keeps the
\* integer part of the number assigned to it
LongEdge(length, dpr) ==
  Min((length * EffectiveRatio(dpr).num) \div EffectiveRatio(dpr).den, maxDim)

\* Math.round(n / d): the nearest integer, a half going up; a canvas
\* attribute assigned the NaN of a zero divisor becomes 0
RoundDiv(n, d) == IF d = 0 THEN 0 ELSE (2 * n + d) \div (2 * d)

\* canvas.height = Math.round(canvas.width / aspect), and the same with the
\* edges exchanged: aspect is the quotient of the two lengths
ShortEdge(long, shortLength, longLength) ==
  RoundDiv(long * shortLength, longLength)

\* the dimension left as the aspect computation set it
KeepDimension(n) == n

\* Math.round(n / 2) * 2
EvenDimension(n) == RoundDiv(n, 2) * 2

\* the buffer before the even rounding: if (aspect > 1) {...} else {...}
RawCanvas(area, dpr) ==
  IF area.width > area.height
  THEN LET w == LongEdge(area.width, dpr)
       IN [width |-> w, height |-> ShortEdge(w, area.height, area.width)]
  ELSE LET h == LongEdge(area.height, dpr)
       IN [width |-> ShortEdge(h, area.width, area.height), height |-> h]

\* the canvas startRecording creates for a selection area
RecordingCanvas(area, dpr) ==
  [ width |-> EvenDimension(RawCanvas(area, dpr).width),
    height |-> EvenDimension(RawCanvas(area, dpr).height) ]

(* --------------------------- the compositor ---------------------------- *)

\* one draw call of a tick: the layer, the source canvas it samples (0 for
\* the other layers) and how it ended: "drawn", "caught" (it threw inside
\* a try block) or "threw" (its exception left drawFrame)
Draw(layer, n, result) == [layer |-> layer, n |-> n, result |-> result]

Threw(log) == log # << >> /\ log[Len(log)].result = "threw"

\* statements run one after another: nothing runs after an exception
Then(log, call) == IF Threw(log) THEN log ELSE Append(log, call)

\* ctx.fillStyle = "#ffffff"; ctx.fillRect(0, 0, width, height)
Background == << Draw("background", 0, "drawn") >>

\* ctx.drawImage(srcCanvas, ...) with no try block around it
SampleUncaught(i, bad) == Draw("source", i, IF i \in bad THEN "threw" ELSE "drawn")

\* try { ctx.drawImage(srcCanvas, ...) } catch { }
Sample(i, bad) == Draw("source", i, IF i \in bad THEN "caught" ELSE "drawn")

\* canvases.forEach((srcCanvas) => {...})
RECURSIVE Sources(_, _, _, _)
Sources(i, count, bad, log) ==
  IF i > count THEN log
  ELSE Sources(i + 1, count, bad, Then(log, Sample(i, bad)))

\* the canvas calls of an overlay layer, which no try block surrounds
Overlay(layer, failing) ==
  Draw(layer, 0, IF layer \in failing THEN "threw" ELSE "drawn")

\* cursorEffect !== "none" && mousePositionRef?.current, and the position
\* strictly inside the buffer
CursorActive(s, inside) == s.cursorEffect # "none" /\ inside

\* showCamera && cameraEnabled && cameraVideoRef.current
CameraActive(s, enabled, video) ==
  s.showCameraInRecording /\ enabled /\ video # 0

\* captionRef?.current?.enabled && captionRef.current.text && selectionArea
CaptionActive(caption, area) ==
  caption.enabled /\ caption.text # "" /\ area # NoArea

CursorLayer(log, s, inside, failing) ==
  IF CursorActive(s, inside) THEN Then(log, Overlay("cursor", failing)) ELSE log

CameraLayer(log, s, enabled, video, failing) ==
  IF CameraActive(s, enabled, video)
  THEN Then(log, Overlay("camera", failing)) ELSE log

CaptionLayer(log, caption, area, failing) ==
  IF CaptionActive(caption, area)
  THEN Then(log, Overlay("caption", failing)) ELSE log

\* the camera and caption sections of drawFrame in the opposite order
CaptionThenCamera(log, s, closure, video, caption, failing) ==
  CameraLayer(CaptionLayer(log, caption, closure.selectionArea, failing),
              s, closure.cameraEnabled, video, failing)

\* the camera section of drawFrame, then its caption section
CameraThenCaption(log, s, closure, video, caption, failing) ==
  CaptionLayer(CameraLayer(log, s, closure.cameraEnabled, video, failing),
               caption, closure.selectionArea, failing)

\* drawFrame: the draw calls of one tick of the interval whose callback is
\* closure
Compose(closure, canvas, count, bad, s, inside, video, caption, failing) ==
  IF canvas = NoCanvas \/ closure.selectionArea = NoArea THEN << >>
  ELSE IF count = 0 THEN << >>
  ELSE CameraThenCaption(
         CursorLayer(Sources(1, count, bad, Background), s, inside, failing),
         s, closure, video, caption, failing)

(* -------------------------------- Init --------------------------------- *)

\* the state after the first render, but for what the platform provides
InitState ==
  /\ isRecording = FALSE
  /\ isPaused = FALSE
  /\ duration = 0
  /\ recordedBlob = NoBlob
  /\ mimeType = ""
  /\ mediaRecorderRef = 0
  /\ chunksRef = << >>
  /\ frameIntervalRef = 0
  /\ durationIntervalRef = 0
  /\ startTimeRef = 0
  /\ pausedDurationRef = 0
  /\ confirmedSelection = NoArea
  /\ isSelectingArea = FALSE
  /\ frameTimers = {}
  /\ durationTimers = {}
  /\ now = 0
  /\ recState = [s \in Sessions |-> "none"]
  /\ recMime = [s \in Sessions |-> ""]
  /\ stopPending = [s \in Sessions |-> FALSE]
  /\ starts = 0
  /\ emitted = [s \in Sessions |-> << >>]
  /\ onstopCount = [s \in Sessions |-> 0]
  /\ failed = {}
  /\ stopCalled = {}
  /\ pausedMs = 0
  /\ lastOp = [op |-> "init", sess |-> 0]
  /\ recordingCanvasRef = NoCanvas
  /\ cameraVideoRef = 0
  /\ frameClosure = [h \in 1..MaxStarts |-> NoClosure]
  /\ recFps = [s \in Sessions |-> 0]
  /\ recBitrate = [s \in Sessions |-> 0]
  /\ settings = DEFAULT_SETTINGS
  /\ cameraEnabled = FALSE
  /\ cameraStream = 0
  /\ cameraRef = 0
  /\ cameraPending = {}
  /\ captionRef = NoCaption
  /\ mouseInside = FALSE
  /\ canvases = 0
  /\ tainted = {}
  /\ broken = {}
  /\ cameraRequests = 0
  /\ transcript = NoText
  /\ isListening = FALSE
  /\ recognitionRef = 0
  /\ restartingRef = FALSE
  /\ clearTimerRef = 0
  /\ recogState = [i \in Instances |-> "none"]
  /\ startEvent = {}
  /\ clearTimers = {}
  /\ instances = 0
  /\ results = 0
  /\ halted = {}
  /\ liveTracks = {}
  /\ captionBox = NoBox
  /\ drawn = << >>

Init ==
  /\ InitState
  /\ supported \in SupportedSets
  /\ devicePixelRatio = Ratio(1, 1)
  /\ captionInput = NoCaptionInput


(* --------------------------- hook operations --------------------------- *)

\* startRecording without its first line
StartUnguarded(area) == TRUE

\* if (!selectionArea || !excalidrawContainerRef.current) return;
StartGuard(area) == area # NoArea

\* stopRecording without the test of the encoder's state
ShouldStopEncoderAnyState(ref, st) == ref # 0

\* mediaRecorderRef.current && mediaRecorderRef.current.state !== "inactive"
ShouldStopEncoder(ref, st) == ref # 0 /\ st[ref] # "inactive"

\* mediaRecorderRef.current && mediaRecorderRef.current.state === "recording"
CanPause(ref, st) == ref # 0 /\ st[ref] = "recording"

\* mediaRecorderRef.current && mediaRecorderRef.current.state === "paused"
CanResume(ref, st) == ref # 0 /\ st[ref] = "paused"

\* if (ref.current) { clearInterval(ref.current); ref.current = null; }
ClearHandle(ref, live) == IF ref # 0 THEN live \ {ref} ELSE live

\* the record of a step that draws nothing: what ran, and for an encoder
\* event on which encoder
Record(op, sess) ==
  /\ lastOp' = [op |-> op, sess |-> sess]
  /\ drawn' = << >>

\* the record of a compositor tick and of its draw calls
RecordTick(log) ==
  /\ lastOp' = [op |-> "drawFrame", sess |-> 0]
  /\ drawn' = log

\* the callback a frame interval created now would run
Closure(area, enabled, fps) ==
  [selectionArea |-> area, cameraEnabled |-> enabled, fps |-> fps]

\* clearInterval(frameIntervalRef.current) drops the interval's callback
DropClosure(ref, closures) ==
  IF ref # 0 THEN [closures EXCEPT ![ref] = NoClosure] ELSE closures

\* a session that was started and is neither Recording nor Paused
Stopped == ~isRecording /\ mediaRecorderRef # 0

startRecording ==
  IF ~StartGuard(confirmedSelection)
  THEN /\ Record("startNoop", 0)
       /\ UNCHANGED << hookVars, pageVars, browserVars, starts, emitted,
                       onstopCount, failed, stopCalled, pausedMs,
                       overlayVars, frameVars >>
  ELSE
    /\ starts < MaxStarts
    /\ LET id == starts + 1
           frameHandle == FreshHandle(frameTimers)
           durationHandle == FreshHandle(durationTimers)
           selectedMimeType == getSupportedMimeType(supported)
           fps == settings.recordingFps
       IN
         /\ starts' = id
         /\ recordingCanvasRef' =
              RecordingCanvas(confirmedSelection, devicePixelRatio)
         /\ frameIntervalRef' = frameHandle
         /\ frameTimers' = frameTimers \cup {frameHandle}
         /\ frameClosure' =
              [frameClosure EXCEPT ![frameHandle] =
                 Closure(confirmedSelection, cameraEnabled, fps)]
         /\ mimeType' = selectedMimeType
         /\ IF ConstructorThrows(selectedMimeType, supported)
            THEN /\ Record("startThrow", 0)
                 /\ UNCHANGED << isRecording, isPaused, duration,
                                 recordedBlob, mediaRecorderRef, chunksRef,
                                 durationIntervalRef, startTimeRef,
                                 pausedDurationRef, durationTimers,
                                 recState, recMime, pausedMs, recFps,
                                 recBitrate >>
            ELSE /\ chunksRef' = << >>
                 /\ recState' = [recState EXCEPT ![id] = "recording"]
                 /\ recMime' = [recMime EXCEPT ![id] = selectedMimeType]
                 /\ recFps' = [recFps EXCEPT ![id] = fps]
                 /\ recBitrate' =
                      [recBitrate EXCEPT ![id] =
                         settings.videoBitrate * BitsPerMegabit]
                 /\ mediaRecorderRef' = id
                 /\ startTimeRef' = now
                 /\ pausedDurationRef' = 0
                 /\ durationIntervalRef' = durationHandle
                 /\ durationTimers' = durationTimers \cup {durationHandle}
                 /\ isRecording' = TRUE
                 /\ isPaused' = FALSE
                 /\ recordedBlob' = NoBlob
                 /\ duration' = 0
                 /\ pausedMs' = 0
                 /\ Record("start", 0)
    /\ UNCHANGED << pageVars, now, supported, stopPending, emitted,
                    onstopCount, failed, stopCalled, overlayVars >>

stopRecording ==
  /\ frameTimers' = ClearHandle(frameIntervalRef, frameTimers)
  /\ frameIntervalRef' = 0
  /\ durationTimers' = ClearHandle(durationIntervalRef, durationTimers)
  /\ durationIntervalRef' = 0
  /\ IF ShouldStopEncoder(mediaRecorderRef, recState)
     THEN /\ recState' = [recState EXCEPT ![mediaRecorderRef] = "inactive"]
          /\ stopPending' = [stopPending EXCEPT ![mediaRecorderRef] = TRUE]
          /\ stopCalled' = stopCalled \cup {mediaRecorderRef}
     ELSE UNCHANGED << recState, stopPending, stopCalled >>
  /\ isRecording' = FALSE
  /\ isPaused' = FALSE
  /\ frameClosure' = DropClosure(frameIntervalRef, frameClosure)
  /\ UNCHANGED << overlayVars, recordingCanvasRef, recFps, recBitrate >>
  /\ Record(IF isRecording THEN "stop" ELSE "stopAgain", 0)
  /\ UNCHANGED << duration, recordedBlob, mimeType, mediaRecorderRef,
                  chunksRef, startTimeRef, pausedDurationRef, pageVars, now,
                  supported, recMime, starts, emitted, onstopCount, failed,
                  pausedMs >>

pauseRecording ==
  /\ IF CanPause(mediaRecorderRef, recState)
     THEN /\ recState' = [recState EXCEPT ![mediaRecorderRef] = "paused"]
          /\ frameTimers' = ClearHandle(frameIntervalRef, frameTimers)
          /\ frameClosure' = DropClosure(frameIntervalRef, frameClosure)
          /\ frameIntervalRef' = 0
          /\ isPaused' = TRUE
     ELSE UNCHANGED << recState, frameTimers, frameClosure, frameIntervalRef,
                       isPaused >>
  /\ UNCHANGED << overlayVars, recordingCanvasRef, recFps, recBitrate >>
  /\ Record("pause", 0)
  /\ UNCHANGED << isRecording, duration, recordedBlob, mimeType,
                  mediaRecorderRef, chunksRef, durationIntervalRef,
                  startTimeRef, pausedDurationRef, pageVars, durationTimers,
                  now, supported, recMime, stopPending, starts, emitted,
                  onstopCount, failed, stopCalled, pausedMs >>

\* const fps = settingsRef?.current?.recordingFps ?? 30
ResumeFps == settings.recordingFps

\* a resume that begins the recording afresh: the chunk list emptied and
\* the start timestamp taken again
resumeFromScratch ==
  /\ IF CanResume(mediaRecorderRef, recState)
     THEN LET frameHandle == FreshHandle(frameTimers) IN
          /\ recState' = [recState EXCEPT ![mediaRecorderRef] = "recording"]
          /\ frameIntervalRef' = frameHandle
          /\ frameTimers' = frameTimers \cup {frameHandle}
          /\ frameClosure' =
               [frameClosure EXCEPT ![frameHandle] =
                  Closure(confirmedSelection, cameraEnabled, ResumeFps)]
          /\ isPaused' = FALSE
          /\ chunksRef' = << >>
          /\ startTimeRef' = now
     ELSE UNCHANGED << recState, frameTimers, frameClosure, frameIntervalRef,
                       isPaused, chunksRef, startTimeRef >>
  /\ UNCHANGED << overlayVars, recordingCanvasRef, recFps, recBitrate >>
  /\ Record("resume", 0)
  /\ UNCHANGED << isRecording, duration, recordedBlob, mimeType,
                  mediaRecorderRef, durationIntervalRef, pausedDurationRef,
                  pageVars, durationTimers, now, supported, recMime,
                  stopPending, starts, emitted, onstopCount, failed,
                  stopCalled, pausedMs >>

resumeRecording ==
  /\ IF CanResume(mediaRecorderRef, recState)
     THEN LET frameHandle == FreshHandle(frameTimers) IN
          /\ recState' = [recState EXCEPT ![mediaRecorderRef] = "recording"]
          /\ frameIntervalRef' = frameHandle
          /\ frameTimers' = frameTimers \cup {frameHandle}
          /\ frameClosure' =
               [frameClosure EXCEPT ![frameHandle] =
                  Closure(confirmedSelection, cameraEnabled, ResumeFps)]
          /\ isPaused' = FALSE
     ELSE UNCHANGED << recState, frameTimers, frameClosure, frameIntervalRef,
                       isPaused >>
  /\ UNCHANGED << overlayVars, recordingCanvasRef, recFps, recBitrate >>
  /\ Record("resume", 0)
  /\ UNCHANGED << isRecording, duration, recordedBlob, mimeType,
                  mediaRecorderRef, chunksRef, durationIntervalRef,
                  startTimeRef, pausedDurationRef, pageVars, durationTimers,
                  now, supported, recMime, stopPending, starts, emitted,
                  onstopCount, failed, stopCalled, pausedMs >>

clearRecording ==
  /\ recordedBlob' = NoBlob
  /\ duration' = 0
  /\ chunksRef' = << >>
  /\ UNCHANGED << overlayVars, frameVars >>
  /\ Record("clear", 0)
  /\ UNCHANGED << isRecording, isPaused, mimeType, mediaRecorderRef,
                  frameIntervalRef, durationIntervalRef, startTimeRef,
                  pausedDurationRef, pageVars, browserVars, starts, emitted,
                  onstopCount, failed, stopCalled, pausedMs >>

(* ------------------------------- timers -------------------------------- *)

\* window.setInterval(() => { drawFrame(); }, 1000 / fps)
drawFrame(h) ==
  /\ h \in frameTimers
  /\ RecordTick(Compose(frameClosure[h], recordingCanvasRef, canvases,
                        tainted, settings, mouseInside, cameraVideoRef,
                        captionRef, broken))
  /\ UNCHANGED << hookVars, pageVars, browserVars, starts, emitted,
                  onstopCount, failed, stopCalled, pausedMs, overlayVars,
                  frameVars >>

\* window.setInterval(() => { setDuration(...) }, 200)
durationTick(h) ==
  /\ h \in durationTimers
  /\ duration' = DurationAt(now, startTimeRef, pausedDurationRef)
  /\ UNCHANGED << overlayVars, frameVars >>
  /\ Record("durationTick", 0)
  /\ UNCHANGED << isRecording, isPaused, recordedBlob, mimeType,
                  mediaRecorderRef, chunksRef, frameIntervalRef,
                  durationIntervalRef, startTimeRef, pausedDurationRef,
                  pageVars, browserVars, starts, emitted, onstopCount,
                  failed, stopCalled, pausedMs >>

\* Date.now() moves forward; the time the session spends Paused is noted
Advance ==
  /\ now < MaxNow
  /\ now' = now + StepMs
  /\ pausedMs' = IF isRecording /\ isPaused THEN pausedMs + StepMs ELSE pausedMs
  /\ UNCHANGED << overlayVars, frameVars >>
  /\ Record("advance", 0)
  /\ UNCHANGED << hookVars, pageVars, frameTimers, durationTimers, supported,
                  recState, recMime, stopPending, starts, emitted,
                  onstopCount, failed, stopCalled >>

(* --------------------------- encoder events ---------------------------- *)

\* sizes of the data an encoder hands to ondataavailable
ChunkSizes == {0, 1}

NextChunk(s, size) == [sess |-> s, n |-> Len(emitted[s]) + 1, size |-> size]

\* recorder.ondataavailable, fired by the timeslice of recorder.start(1000)
ondataavailable(s, size) ==
  /\ recState[s] = "recording"
  /\ Len(emitted[s]) < MaxChunks
  /\ emitted' = [emitted EXCEPT ![s] = Append(@, NextChunk(s, size))]
  /\ chunksRef' = PushChunk(chunksRef, NextChunk(s, size))
  /\ UNCHANGED << overlayVars, frameVars >>
  /\ Record("dataavailable", s)
  /\ UNCHANGED << isRecording, isPaused, duration, recordedBlob, mimeType,
                  mediaRecorderRef, frameIntervalRef, durationIntervalRef,
                  startTimeRef, pausedDurationRef, pageVars, browserVars,
                  starts, onstopCount, failed, stopCalled, pausedMs >>

\* the task a stopping MediaRecorder runs: a last dataavailable with the
\* data gathered since the previous one, then recorder.onstop
onstop(s, size) ==
  /\ stopPending[s]
  /\ stopPending' = [stopPending EXCEPT ![s] = FALSE]
  /\ emitted' = [emitted EXCEPT ![s] = Append(@, NextChunk(s, size))]
  /\ chunksRef' = PushChunk(chunksRef, NextChunk(s, size))
  /\ recordedBlob' = MakeBlob(chunksRef', recMime[s])
  /\ onstopCount' = [onstopCount EXCEPT ![s] = IF @ < 2 THEN @ + 1 ELSE @]
  /\ UNCHANGED << overlayVars, frameVars >>
  /\ Record("onstop", s)
  /\ UNCHANGED << isRecording, isPaused, duration, mimeType,
                  mediaRecorderRef, frameIntervalRef, durationIntervalRef,
                  startTimeRef, pausedDurationRef, pageVars, frameTimers,
                  durationTimers, now, supported, recState, recMime, starts,
                  failed, stopCalled, pausedMs >>

\* the encoder stops by itself (encoding error, track ended): the
\* MediaRecorder goes inactive and runs the same stopping task
EncoderFail(s) ==
  /\ recState[s] \in {"recording", "paused"}
  /\ recState' = [recState EXCEPT ![s] = "inactive"]
  /\ stopPending' = [stopPending EXCEPT ![s] = TRUE]
  /\ failed' = failed \cup {s}
  /\ UNCHANGED << overlayVars, frameVars >>
  /\ Record("fail", s)
  /\ UNCHANGED << hookVars, pageVars, frameTimers, durationTimers, now,
                  supported, recMime, starts, emitted, onstopCount,
                  stopCalled, pausedMs >>

(* -------------------------- BoardPage handlers ------------------------- *)

\* if (recorder.isRecording) return; setIsSelectingArea(true)
handleSelectArea ==
  /\ isSelectingArea' = (IF isRecording THEN isSelectingArea ELSE TRUE)
  /\ UNCHANGED << overlayVars, frameVars >>
  /\ Record("selectArea", 0)
  /\ UNCHANGED << hookVars, confirmedSelection, browserVars, starts,
                  emitted, onstopCount, failed, stopCalled, pausedMs >>

\* selectionArea && selectionArea.width > 10 && selectionArea.height > 10
AreaValid(a) == a # NoArea /\ a.width > 10 /\ a.height > 10

\* AreaSelector calls onConfirm only while it is active
handleConfirmArea(a) ==
  /\ isSelectingArea
  /\ confirmedSelection' = (IF AreaValid(a) THEN a ELSE confirmedSelection)
  /\ isSelectingArea' = FALSE
  /\ UNCHANGED << overlayVars, frameVars >>
  /\ Record("confirmArea", 0)
  /\ UNCHANGED << hookVars, browserVars, starts, emitted, onstopCount,
                  failed, stopCalled, pausedMs >>

\* AreaSelector calls onCancel only while it is active; the area being
\* drawn is dropped, the confirmed one stays
handleCancelArea ==
  /\ isSelectingArea
  /\ isSelectingArea' = FALSE
  /\ UNCHANGED << overlayVars, frameVars >>
  /\ Record("cancelArea", 0)
  /\ UNCHANGED << hookVars, confirmedSelection, browserVars, starts,
                  emitted, onstopCount, failed, stopCalled, pausedMs >>

\* ExportDialog, rendered while recorder.recordedBlob is set, calls
\* onNewRecording: recorder.clearRecording(); setConfirmedSelection(null)
handleNewRecording ==
  /\ recordedBlob # NoBlob
  /\ recordedBlob' = NoBlob
  /\ duration' = 0
  /\ chunksRef' = << >>
  /\ confirmedSelection' = NoArea
  /\ UNCHANGED << overlayVars, frameVars >>
  /\ Record("newRecording", 0)
  /\ UNCHANGED << isRecording, isPaused, mimeType, mediaRecorderRef,
                  frameIntervalRef, durationIntervalRef, startTimeRef,
                  pausedDurationRef, isSelectingArea, browserVars, starts,
                  emitted, onstopCount, failed, stopCalled, pausedMs >>

(* ---------------------------- useMediaDevices -------------------------- *)

\* the session, which nothing outside useRecorder and BoardPage changes
recorderVars ==
  << hookVars, pageVars, browserVars, starts, emitted, onstopCount, failed,
     stopCalled, pausedMs, frameVars >>

\* the cameraStream effect without its else branch
CameraVideoKept(stream, current) == IF stream # 0 THEN stream ELSE current

\* useEffect(..., [cameraStream]): a video element for the stream, or null.
\* React runs the effect in the commit of the update that set cameraStream
CameraVideo(stream, current) == IF stream # 0 THEN stream ELSE 0

\* requestCamera up to its await: getUserMedia is asked for a stream
requestCamera ==
  /\ cameraRequests < MaxCameraRequests
  /\ cameraRequests' = cameraRequests + 1
  /\ cameraPending' = cameraPending \cup {cameraRequests + 1}
  /\ Record("requestCamera", 0)
  /\ UNCHANGED << recorderVars, speechVars, captionVars,
                  liveTracks,
                  cameraVideoRef, devicePixelRatio, settings,
                  cameraEnabled, cameraStream, cameraRef, captionRef,
                  mouseInside, canvases, tainted, broken >>

\* requestCamera after its await, getUserMedia having resolved
cameraGranted(r) ==
  /\ r \in cameraPending
  /\ cameraPending' = cameraPending \ {r}
  /\ cameraRef' = r
  /\ cameraStream' = r
  /\ cameraEnabled' = TRUE
  /\ cameraVideoRef' = CameraVideo(r, cameraVideoRef)
  /\ liveTracks' = liveTracks \cup {r}
  /\ Record("cameraGranted", 0)
  /\ UNCHANGED << recorderVars, speechVars, captionVars,
                  devicePixelRatio, settings, captionRef,
                  mouseInside, canvases, tainted, broken, cameraRequests >>

\* requestCamera after its await, getUserMedia having rejected
cameraDenied(r) ==
  /\ r \in cameraPending
  /\ cameraPending' = cameraPending \ {r}
  /\ cameraEnabled' = FALSE
  /\ Record("cameraDenied", 0)
  /\ UNCHANGED << recorderVars, speechVars, captionVars,
                  liveTracks,
                  cameraVideoRef, devicePixelRatio, settings,
                  cameraStream, cameraRef, captionRef, mouseInside, canvases,
                  tainted, broken, cameraRequests >>

stopCamera ==
  /\ cameraRef' = 0
  /\ cameraStream' = 0
  /\ cameraEnabled' = FALSE
  /\ cameraVideoRef' = CameraVideo(0, cameraVideoRef)
  /\ liveTracks' = liveTracks \ {cameraRef}
  /\ Record("stopCamera", 0)
  /\ UNCHANGED << recorderVars, speechVars, captionVars,
                  devicePixelRatio, settings, cameraPending,
                  captionRef, mouseInside, canvases, tainted, broken,
                  cameraRequests >>

(* ------------------- settings, captions, mouse, canvases --------------- *)

\* setSettingsState((prev) => ({ ...prev, [key]: value }))
updateSetting(key, value) ==
  /\ settings' = [settings EXCEPT ![key] = value]
  /\ Record("updateSetting", 0)
  /\ UNCHANGED << recorderVars, speechVars, captionVars,
                  liveTracks,
                  cameraVideoRef, devicePixelRatio,
                  cameraEnabled, cameraStream, cameraRef, cameraPending,
                  captionRef, mouseInside, canvases, tainted, broken,
                  cameraRequests >>

\* captionRef.current = { text: speech.transcript, enabled:
\* speech.isListening, ... } on the render after speech changed
captionSync(enabled, text) ==
  /\ captionRef' = [enabled |-> enabled, text |-> text]
  /\ Record("captionSync", 0)
  /\ UNCHANGED << recorderVars, speechVars, captionVars,
                  liveTracks,
                  cameraVideoRef, devicePixelRatio, settings,
                  cameraEnabled, cameraStream, cameraRef, cameraPending,
                  mouseInside, canvases, tainted, broken, cameraRequests >>

\* the mousemove listener, installed while recorder.isRecording and
\* settings.cursorEffect !== "none"
mousemove(inside) ==
  /\ isRecording
  /\ settings.cursorEffect # "none"
  /\ mouseInside' = inside
  /\ Record("mousemove", 0)
  /\ UNCHANGED << recorderVars, speechVars, captionVars,
                  liveTracks,
                  cameraVideoRef, devicePixelRatio, settings,
                  cameraEnabled, cameraStream, cameraRef, cameraPending,
                  captionRef, canvases, tainted, broken, cameraRequests >>

\* Excalidraw, loaded lazily, mounts or unmounts canvases in the container
excalidrawRender(count) ==
  /\ canvases' = count
  /\ tainted' = tainted \cap 1..count
  /\ Record("excalidrawRender", 0)
  /\ UNCHANGED << recorderVars, speechVars, captionVars,
                  liveTracks,
                  cameraVideoRef, devicePixelRatio, settings,
                  cameraEnabled, cameraStream, cameraRef, cameraPending,
                  captionRef, mouseInside, broken, cameraRequests >>

\* source canvases become, or stop being, ones drawImage throws for
sourceFault(bad) ==
  /\ bad \subseteq 1..canvases
  /\ tainted' = bad
  /\ Record("sourceFault", 0)
  /\ UNCHANGED << recorderVars, speechVars, captionVars,
                  liveTracks,
                  cameraVideoRef, devicePixelRatio, settings,
                  cameraEnabled, cameraStream, cameraRef, cameraPending,
                  captionRef, mouseInside, canvases, broken, cameraRequests >>

\* the canvas calls of overlay layers start, or stop, throwing
overlayFault(failing) ==
  /\ broken' = failing
  /\ Record("overlayFault", 0)
  /\ UNCHANGED << recorderVars, speechVars, captionVars,
                  liveTracks,
                  cameraVideoRef, devicePixelRatio, settings,
                  cameraEnabled, cameraStream, cameraRef, cameraPending,
                  captionRef, mouseInside, canvases, tainted, cameraRequests >>

(* ---------------------------- useSpeechToText -------------------------- *)

\* recognition.abort() or recognition.stop(): a running object ends, its
\* end event is queued; any other object is left as it is
Halt(states, i) ==
  IF i # 0 /\ states[i] = "running" THEN [states EXCEPT ![i] = "ending"]
  ELSE states

\* onresult without its clearTimeout
PendingClearKept(ref, live) == live

\* if (clearTimerRef.current) window.clearTimeout(clearTimerRef.current)
PendingClearCancelled(ref, live) == ClearHandle(ref, live)

\* start: the existing object is aborted, a new one is made and started
speechStart ==
  /\ instances < MaxInstances
  /\ instances' = instances + 1
  /\ recogState' = [Halt(recogState, recognitionRef)
                      EXCEPT ![instances + 1] = "running"]
  /\ halted' = IF recognitionRef # 0 THEN halted \cup {recognitionRef}
               ELSE halted
  /\ startEvent' = startEvent \cup {instances + 1}
  /\ transcript' = NoText
  /\ recognitionRef' = instances + 1
  /\ restartingRef' = TRUE
  /\ Record("speechStart", instances + 1)
  /\ UNCHANGED << recorderVars, mediaVars, captionVars,
                  isListening, clearTimerRef,
                  clearTimers, results >>

\* stop
speechStop ==
  /\ restartingRef' = FALSE
  /\ recogState' = Halt(recogState, recognitionRef)
  /\ halted' = IF recognitionRef # 0 THEN halted \cup {recognitionRef}
               ELSE halted
  /\ isListening' = FALSE
  /\ Record("speechStop", recognitionRef)
  /\ UNCHANGED << recorderVars, mediaVars, captionVars,
                  transcript, recognitionRef,
                  clearTimerRef, startEvent, clearTimers, instances,
                  results >>

\* clear
speechClear ==
  /\ clearTimers' = ClearHandle(clearTimerRef, clearTimers)
  /\ clearTimerRef' = 0
  /\ transcript' = NoText
  /\ Record("speechClear", 0)
  /\ UNCHANGED << recorderVars, mediaVars, captionVars,
                  isListening, recognitionRef,
                  restartingRef, recogState, startEvent, instances, results,
                  halted >>

\* recognition.onstart
onstart(i) ==
  /\ i \in startEvent
  /\ startEvent' = startEvent \ {i}
  /\ isListening' = TRUE
  /\ Record("onstart", i)
  /\ UNCHANGED << recorderVars, mediaVars, captionVars,
                  transcript, recognitionRef,
                  restartingRef, clearTimerRef, recogState, clearTimers,
                  instances, results, halted >>

\* what a result event carries: a completed sentence, a partial one, or
\* no text
ResultKinds == {"final", "interim", "empty"}

\* recognition.onresult. window.setTimeout returns a handle no other
\* timeout has had: here the number of the result that armed it
onresult(i, kind) ==
  /\ recogState[i] = "running"
  /\ results < MaxResults
  /\ results' = results + 1
  /\ IF kind = "final"
       THEN /\ transcript' = Final(results + 1)
            /\ clearTimerRef' = results + 1
            /\ clearTimers' =
                 PendingClearCancelled(clearTimerRef, clearTimers)
                   \cup {results + 1}
       ELSE /\ transcript' = IF kind = "interim" THEN Interim(results + 1)
                             ELSE transcript
            /\ clearTimerRef' = 0
            /\ clearTimers' = PendingClearCancelled(clearTimerRef, clearTimers)
  /\ Record("onresult", i)
  /\ UNCHANGED << recorderVars, mediaVars, captionVars,
                  isListening, recognitionRef,
                  restartingRef, recogState, startEvent, instances, halted >>

\* the callback of the timeout onresult armed
captionTimeout(h) ==
  /\ h \in clearTimers
  /\ clearTimers' = clearTimers \ {h}
  /\ transcript' = NoText
  /\ clearTimerRef' = 0
  /\ Record("captionTimeout", h)
  /\ UNCHANGED << recorderVars, mediaVars, captionVars,
                  isListening, recognitionRef,
                  restartingRef, recogState, startEvent, instances, results,
                  halted >>

\* recognition.onerror with an error other than "no-speech" and "aborted":
\* the browser ends the recognition after it
onerror(i) ==
  /\ recogState[i] = "running"
  /\ isListening' = FALSE
  /\ recogState' = [recogState EXCEPT ![i] = "ending"]
  /\ Record("onerror", i)
  /\ UNCHANGED << recorderVars, mediaVars, captionVars,
                  transcript, recognitionRef,
                  restartingRef, clearTimerRef, startEvent, clearTimers,
                  instances, results, halted >>

\* the browser ends a recognition by itself, after silence
recognitionEnds(i) ==
  /\ recogState[i] = "running"
  /\ recogState' = [recogState EXCEPT ![i] = "ending"]
  /\ Record("recognitionEnds", i)
  /\ UNCHANGED << recorderVars, mediaVars, captionVars,
                  transcript, isListening,
                  recognitionRef, restartingRef, clearTimerRef, startEvent,
                  clearTimers, instances, results, halted >>

\* recognition.onend: the object the handler closes over is started again
\* while restartingRef is set
onend(i) ==
  /\ recogState[i] = "ending"
  /\ IF restartingRef
       THEN /\ recogState' = [recogState EXCEPT ![i] = "running"]
            /\ startEvent' = startEvent \cup {i}
            /\ Record("onendRestart", i)
            /\ UNCHANGED isListening
       ELSE /\ recogState' = [recogState EXCEPT ![i] = "idle"]
            /\ startEvent' = startEvent \ {i}
            /\ isListening' = FALSE
            /\ Record("onend", i)
  /\ UNCHANGED << recorderVars, mediaVars, captionVars,
                  transcript, recognitionRef,
                  restartingRef, clearTimerRef, clearTimers, instances,
                  results, halted >>

(* ----------------------------- caption layer --------------------------- *)

\* s?.captionFontSize === "small" ? 0.028 : "large" ? 0.045 : 0.035, in
\* thousandths
fontSizeMultiplier(captionFontSize) ==
  IF captionFontSize = "small" THEN 28
  ELSE IF captionFontSize = "large" THEN 45
  ELSE 35

\* Math.max(a, b)
Max(a, b) == IF a >= b THEN a ELSE b

\* Math.max(14, Math.round(recordingCanvas.height * fontSizeMultiplier)),
\* in pixels
fontSize(height, captionFontSize) ==
  Max(14, RoundDiv(height * fontSizeMultiplier(captionFontSize), 1000))

\* recordingCanvas.width * 0.8, in tenths of a pixel
maxWidth(width) == 8 * width

\* fontSize * 1.4 and fontSize * 0.6, in tenths of a pixel
lineHeight(size) == 14 * size

padding(size) == 6 * size

\* the greedy line breaking: the measured width of each line. A line is
\* closed when the next word would make it wider than the limit, unless it
\* is empty
RECURSIVE WrapFrom(_, _, _, _, _)
WrapFrom(words, i, currentLine, lines, limit) ==
  IF i > Len(words)
    THEN IF currentLine # 0 THEN Append(lines, currentLine) ELSE lines
  ELSE LET testLine == IF currentLine # 0
                         THEN currentLine + SpaceWidth + words[i]
                         ELSE words[i]
       IN  IF testLine > limit /\ currentLine # 0
             THEN WrapFrom(words, i + 1, words[i],
                           Append(lines, currentLine), limit)
           ELSE WrapFrom(words, i + 1, testLine, lines, limit)

\* Math.max(...lines.map((l) => ctx.measureText(l).width))
Widest(lines) ==
  CHOOSE w \in { lines[i] : i \in 1..Len(lines) } :
    \A i \in 1..Len(lines) : lines[i] <= w

\* Math.max(0, Math.min(position, extent - size))
Clamp(position, extent, size) == Max(0, Min(position, extent - size))

\* the background rectangle of the caption, in tenths of a pixel
CaptionBox(input) ==
  LET size == fontSize(input.height, input.captionFontSize)
      lines == WrapFrom(input.words, 1, 0, << >>, maxWidth(input.width))
      boxHeight == Len(lines) * lineHeight(size) + padding(size) * 2
      boxWidth == Min(maxWidth(input.width) + padding(size) * 2,
                      Widest(lines) + padding(size) * 2)
  IN  [boxX |-> Clamp(input.captionX, 10 * input.width, boxWidth),
       boxY |-> Clamp(input.captionY, 10 * input.height, boxHeight),
       boxWidth |-> boxWidth,
       boxHeight |-> boxHeight]

\* the caption layer of drawFrame lays the text out and fills the rectangle
drawCaption ==
  /\ captionInput.words # << >>
  /\ captionBox' = CaptionBox(captionInput)
  /\ Record("drawCaption", 0)
  /\ UNCHANGED << recorderVars, mediaVars, speechVars, captionInput >>

(* ------------------------------ behaviours ----------------------------- *)

Next ==
  \/ startRecording
  \/ stopRecording
  \/ pauseRecording
  \/ resumeRecording
  \/ clearRecording
  \/ \E h \in 1..MaxStarts : drawFrame(h)
  \/ \E h \in 1..MaxStarts : durationTick(h)
  \/ Advance
  \/ \E s \in Sessions, size \in ChunkSizes : ondataavailable(s, size)
  \/ \E s \in Sessions, size \in ChunkSizes : onstop(s, size)
  \/ \E s \in Sessions : EncoderFail(s)
  \/ handleSelectArea
  \/ \E a \in Areas \cup {NoArea} : handleConfirmArea(a)
  \/ handleNewRecording

Spec == Init /\ [][Next]_vars

\* the browser runs every task it has queued: a stopping encoder's last
\* dataavailable and stop events are delivered
SpecFair ==
  /\ Init
  /\ [][Next]_vars
  /\ \A s \in Sessions : WF_vars(\E size \in ChunkSizes : onstop(s, size))

\* the type negotiation of startRecording on every platform
InitMime ==
  /\ InitState
  /\ supported \in AllSupportedSets
  /\ devicePixelRatio = Ratio(1, 1)
  /\ captionInput = NoCaptionInput

NextMime ==
  \/ handleSelectArea
  \/ \E a \in Areas : handleConfirmArea(a)
  \/ startRecording
  \/ stopRecording

SpecMime == InitMime /\ [][NextMime]_vars

\* lengths of selection-area edges, and device pixel ratios
Lengths == {11, 12, 101, 384, 720, 1279, 1919, 1920, 1921, 3840}

CanvasAreas == { [width |-> w, height |-> h] : w \in Lengths, h \in Lengths }

Ratios ==
  { Ratio(0, 1), Ratio(1, 2), Ratio(1, 1), Ratio(5, 4), Ratio(3, 2),
    Ratio(2, 1), Ratio(3, 1) }

\* the sizing of the recording canvas, for those areas and ratios
InitCanvas ==
  /\ InitState
  /\ supported \in SupportedSets \ {{}}
  /\ devicePixelRatio \in Ratios
  /\ captionInput = NoCaptionInput

NextCanvas ==
  \/ handleSelectArea
  \/ \E a \in CanvasAreas : handleConfirmArea(a)
  \/ startRecording

SpecCanvas == InitCanvas /\ [][NextCanvas]_vars

\* a session brought to Recording, and the ticks of its frame clock
RecordingSteps ==
  \/ handleSelectArea
  \/ \E a \in Areas : handleConfirmArea(a)
  \/ startRecording
  \/ \E h \in 1..MaxStarts : drawFrame(h)

\* the session as far as the frame clock depends on it
SessionSteps ==
  \/ RecordingSteps
  \/ stopRecording
  \/ pauseRecording
  \/ resumeRecording

\* no overlay layer failing, or one
SingleFaults == {{}} \cup { {layer} : layer \in OverlayLayers }

\* the compositor and everything a tick reads
NextFrame ==
  \/ RecordingSteps
  \/ \E count \in 0..MaxCanvases : excalidrawRender(count)
  \/ \E bad \in SUBSET (1..MaxCanvases) : sourceFault(bad)
  \/ \E failing \in SingleFaults : overlayFault(failing)
  \/ \E key \in {"cursorEffect", "showCameraInRecording"} :
       \E value \in SettingValues[key] : updateSetting(key, value)
  \/ \E text \in CaptionTexts : captionSync(text # "", text)
  \/ \E inside \in BOOLEAN : mousemove(inside)
  \/ requestCamera
  \/ \E r \in 1..MaxCameraRequests : cameraGranted(r)

SpecFrame == Init /\ [][NextFrame]_vars

\* the camera switched on and off around a session
NextCamera ==
  \/ SessionSteps
  \/ \E count \in 0..MaxCanvases : excalidrawRender(count)
  \/ requestCamera
  \/ \E r \in 1..MaxCameraRequests : cameraGranted(r)
  \/ \E r \in 1..MaxCameraRequests : cameraDenied(r)
  \/ stopCamera

SpecCamera == Init /\ [][NextCamera]_vars

\* the recording settings changed around a session
NextRate ==
  \/ SessionSteps
  \/ \E key \in {"recordingFps", "videoBitrate"} :
       \E value \in SettingValues[key] : updateSetting(key, value)

SpecRate == Init /\ [][NextRate]_vars

\* {!isSelectingArea && <RecordingControls ... />}
ControlsShown == ~isSelectingArea

\* the page as its controls let it be driven: RecordingControls shows Select
\* Area and Start while not recording, Pause or Resume and Stop while
\* recording, and is hidden while the area selector is active
NextPage ==
  \/ ControlsShown /\ ~isRecording /\ handleSelectArea
  \/ \E a \in Areas \cup {NoArea} : handleConfirmArea(a)
  \/ handleCancelArea
  \/ handleNewRecording
  \/ ControlsShown /\ ~isRecording /\ confirmedSelection # NoArea
       /\ startRecording
  \/ ControlsShown /\ isRecording /\ stopRecording
  \/ ControlsShown /\ isRecording /\ ~isPaused /\ pauseRecording
  \/ ControlsShown /\ isRecording /\ isPaused /\ resumeRecording
  \/ \E h \in 1..MaxStarts : drawFrame(h)
  \/ \E s \in Sessions, size \in ChunkSizes : ondataavailable(s, size)
  \/ \E s \in Sessions, size \in ChunkSizes : onstop(s, size)

SpecPage == Init /\ [][NextPage]_vars

\* sizes of the recording canvas, caption positions in and around it, and
\* measured word widths, the last three in tenths of a pixel
BufferEdges == {100, 720, 1920}

CaptionPositions == {0 - 500, 3000, 25000}

WordWidths == {300, 1500, 9000}

CaptionWords ==
  UNION { [1..n -> WordWidths] : n \in 1..MaxWords }

CaptionInputs ==
  [width : BufferEdges, height : BufferEdges, captionX : CaptionPositions,
   captionY : CaptionPositions, captionFontSize : {"small", "medium", "large"},
   words : CaptionWords]

\* the caption layout for those buffers, positions and texts
InitCaption ==
  /\ InitState
  /\ supported \in SupportedSets \ {{}}
  /\ devicePixelRatio = Ratio(1, 1)
  /\ captionInput \in CaptionInputs

NextCaption == drawCaption

SpecCaption == InitCaption /\ [][NextCaption]_vars

\* captions: the speech hook and the events of its recognition objects
NextSpeech ==
  \/ speechStart
  \/ speechStop
  \/ speechClear
  \/ \E i \in Instances : onstart(i)
  \/ \E i \in Instances, kind \in ResultKinds : onresult(i, kind)
  \/ \E h \in 1..MaxResults : captionTimeout(h)
  \/ \E i \in Instances : onerror(i)
  \/ \E i \in Instances : recognitionEnds(i)
  \/ \E i \in Instances : onend(i)

SpecSpeech == Init /\ [][NextSpeech]_vars

\* the browser runs the callback of every timeout that is not cancelled
SpecSpeechFair ==
  /\ Init
  /\ [][NextSpeech]_vars
  /\ \A h \in 1..MaxResults : WF_vars(captionTimeout(h))

TypeOK ==
  /\ isRecording \in BOOLEAN /\ isPaused \in BOOLEAN
  /\ duration \in 0..(MaxNow \div MsPerSecond)
  /\ mediaRecorderRef \in 0..MaxStarts
  /\ frameIntervalRef \in 0..MaxStarts /\ durationIntervalRef \in 0..MaxStarts
  /\ frameTimers \subseteq 1..MaxStarts /\ durationTimers \subseteq 1..MaxStarts
  /\ now \in 0..MaxNow
  /\ \A s \in Sessions : recState[s] \in {"none", "recording", "paused", "inactive"}
  /\ canvases \in 0..MaxCanvases /\ tainted \subseteq 1..canvases
  /\ broken \subseteq OverlayLayers
  /\ cameraStream \in 0..MaxCameraRequests /\ cameraVideoRef \in 0..MaxCameraRequests
  /\ \A i \in 1..Len(drawn) : drawn[i].result \in {"drawn", "caught", "threw"}


(* ------------------------------- claims -------------------------------- *)

\* the chunks of encoder s that ondataavailable was given with size > 0,
\* in the order they were delivered, as a Blob of the type s was created with
SessionArtifact(s) == MakeBlob(SelectSeq(emitted[s], NonEmpty), recMime[s])

\* the fields of the session and of its encoders: everything but the
\* interval handles and the record of the last step
sessionVars ==
  << isRecording, isPaused, duration, recordedBlob, mimeType,
     mediaRecorderRef, chunksRef, startTimeRef, pausedDurationRef,
     confirmedSelection, recState, recMime, stopPending, emitted,
     onstopCount, failed, stopCalled >>

\* C1: after one start() and any pause()/resume() pairs, a duration-timer
\* firing on the Recording session reports the whole seconds of the time
\* since start minus the time the session spent Paused.
C1_DurationExcludesPauses ==
  (starts = 1 /\ isRecording /\ ~isPaused /\ lastOp.op = "durationTick")
    => duration = (now - startTimeRef - pausedMs) \div MsPerSecond

\* C2: while the session is Paused (pause() has returned, resume() has not
\* been called) no step is a compositor tick.
C2_NoFrameWhilePaused ==
  (isRecording /\ isPaused) => lastOp.op # "drawFrame"

\* C3: while the session is Recording or Paused (isRecording) there is no
\* output artifact, and an artifact appears only by the stop event of an
\* encoder that stop() stopped.
C3_NoArtifactWhileRecording ==
  /\ [](isRecording => recordedBlob = NoBlob)
  /\ [][ (recordedBlob = NoBlob /\ recordedBlob' # NoBlob)
          => (lastOp'.op = "onstop" /\ lastOp'.sess \in stopCalled) ]_vars

\* C4: the artifact set by an encoder's stop event is the concatenation of
\* the non-empty chunks that encoder emitted, in arrival order, with the
\* MIME type negotiated when that encoder was created.
C4_ArtifactIsSessionChunks ==
  \A s \in Sessions :
    lastOp = [op |-> "onstop", sess |-> s] => recordedBlob = SessionArtifact(s)

\* C5: stop() on a session that is not Recording or Paused (Idle or
\* Stopped) changes no field of the session, does not stop the encoder
\* again, and leaves the artifact, present or still to be assembled, as it
\* was.
C5_StopIdempotent ==
  [][ (~isRecording /\ lastOp'.op = "stopAgain") => UNCHANGED sessionVars ]_vars

C5_Witness ==
  /\ lastOp.op = "stopAgain"
  /\ mediaRecorderRef # 0
  /\ recState[mediaRecorderRef] = "inactive"
  /\ onstopCount[mediaRecorderRef] = 1
  /\ recordedBlob # NoBlob

\* C6: while the session is Paused a firing of the duration timer leaves
\* the reported duration as it was.
C6_DurationFrozenWhilePaused ==
  [][ (isRecording /\ isPaused /\ lastOp'.op = "durationTick")
        => duration' = duration ]_vars

\* C7: across every step that starts and ends with the same session
\* Recording (timer firings and public operations other than a new
\* start()), the reported duration does not decrease.
C7_DurationMonotonic ==
  [][ (isRecording /\ ~isPaused /\ isRecording' /\ ~isPaused'
        /\ lastOp'.op # "start")
        => duration' >= duration ]_vars

C9_FailureStopsSession ==
  \A s \in Sessions :
    (lastOp = [op |-> "onstop", sess |-> s] /\ s \in failed
       /\ s = mediaRecorderRef)
      => /\ ~isRecording
         /\ ~isPaused
         /\ frameIntervalRef = 0
         /\ durationIntervalRef = 0
         /\ recordedBlob = SessionArtifact(s)

\* C10: on a platform that supports no entry of the preference list, a
\* start() with a confirmed region does not throw, enters Recording, and
\* reports the baseline type, which is also the encoder's type.
C10_BaselineFallbackStarts ==
  ((\A i \in 1..Len(types) : types[i] \notin supported)
     /\ lastOp.op \in {"start", "startThrow"})
    => /\ lastOp.op = "start"
       /\ isRecording
       /\ mimeType = Baseline
       /\ recMime[mediaRecorderRef] = Baseline

\* C11: whatever subset of the preference list the platform supports, the
\* type a start() negotiates is the supported entry of smallest index, and
\* is a supported entry whenever the subset is not empty.
C11_FirstSupportedWins ==
  ((\E i \in 1..Len(types) : types[i] \in supported)
     /\ lastOp.op \in {"start", "startThrow"})
    => /\ mimeType \in supported
       /\ \E i \in 1..Len(types) :
            /\ mimeType = types[i]
            /\ \A j \in 1..(i - 1) : types[j] \notin supported

C11_Witness ==
  /\ lastOp.op = "start"
  /\ supported = {types[4], types[6]}
  /\ mimeType = types[4]

\* C12: for every confirmed area and device pixel ratio, the buffer a
\* start() sizes has an even width and an even height, each the even
\* number nearest to (at most 1 from) the dimension the aspect computation
\* gave, and neither is above maxDim.
C12_EvenBufferWithinLimit ==
  lastOp.op \in {"start", "startThrow"}
    => LET raw == RawCanvas(confirmedSelection, devicePixelRatio)
           Near(a, b) == a - b \in {-1, 0, 1}
       IN /\ recordingCanvasRef.width % 2 = 0
          /\ recordingCanvasRef.height % 2 = 0
          /\ recordingCanvasRef.width <= maxDim
          /\ recordingCanvasRef.height <= maxDim
          /\ Near(recordingCanvasRef.width, raw.width)
          /\ Near(recordingCanvasRef.height, raw.height)

C12_Witness ==
  /\ lastOp.op = "start"
  /\ confirmedSelection = [width |-> 1279, height |-> 1919]
  /\ devicePixelRatio = Ratio(3, 2)
  /\ recordingCanvasRef = [width |-> 1280, height |-> 1920]

\* C13: a start() while no area is confirmed changes nothing: no state
\* field, no chunk list, no buffer, no interval, no encoder.
C13_StartWithoutRegionIsNoop ==
  [][ (confirmedSelection = NoArea
        /\ lastOp'.op \in {"start", "startNoop", "startThrow"})
        => UNCHANGED << hookVars, pageVars, browserVars, frameVars >> ]_vars

C13_Witness ==
  /\ lastOp.op = "startNoop"
  /\ confirmedSelection = NoArea
  /\ mediaRecorderRef # 0
  /\ recordedBlob = NoBlob

\* C14: a clear() on a Stopped session leaves the artifact absent, the
\* duration 0 and the chunk list empty, and the step that follows it,
\* unless it is a start(), leaves them so: no callback of the cleared
\* session brings an artifact back.
C14_ClearedStaysCleared ==
  [][ (Stopped /\ lastOp.op \in {"clear", "newRecording"}
        /\ lastOp'.op \notin {"start", "startNoop", "startThrow"})
        => (recordedBlob' = NoBlob /\ duration' = 0 /\ chunksRef' = << >>) ]_vars

\* the last step made this draw call
Has(call) == \E i \in 1..Len(drawn) : drawn[i] = call

\* the last step made a draw call of this layer, whatever its outcome
HasLayer(layer) == \E i \in 1..Len(drawn) : drawn[i].layer = layer

\* every live frame interval was created while the camera was enabled
CameraCaptured ==
  frameTimers # {} /\ \A h \in frameTimers : frameClosure[h].cameraEnabled

\* C15: in a tick that samples the source canvases, whichever of them
\* drawImage throws for (some or all), the tick runs to its end: the
\* background is filled, every other source canvas is drawn, and the
\* cursor, camera and caption layers that are switched on are drawn.
C15_SourceFailuresAreContained ==
  (lastOp.op = "drawFrame" /\ drawn # << >> /\ broken = {})
    => /\ drawn[1] = Draw("background", 0, "drawn")
       /\ ~Threw(drawn)
       /\ \A i \in 1..canvases :
            Has(Draw("source", i, IF i \in tainted THEN "caught" ELSE "drawn"))
       /\ CursorActive(settings, mouseInside) => Has(Draw("cursor", 0, "drawn"))
       /\ (settings.showCameraInRecording /\ cameraVideoRef # 0
             /\ CameraCaptured) => Has(Draw("camera", 0, "drawn"))
       /\ (captionRef.enabled /\ captionRef.text # "")
            => Has(Draw("caption", 0, "drawn"))

C15_Witness ==
  /\ lastOp.op = "drawFrame"
  /\ broken = {}
  /\ canvases = MaxCanvases
  /\ tainted = 1..MaxCanvases
  /\ Has(Draw("source", MaxCanvases, "caught"))
  /\ Has(Draw("cursor", 0, "drawn"))
  /\ Has(Draw("camera", 0, "drawn"))
  /\ Has(Draw("caption", 0, "drawn"))

\* C16: every tick of the frame clock while the session is Recording
\* fills the buffer with the background, also when the container holds no
\* source canvas.
C16_EveryTickFillsBackground ==
  (lastOp.op = "drawFrame" /\ isRecording /\ ~isPaused)
    => (drawn # << >> /\ drawn[1] = Draw("background", 0, "drawn"))

\* C17: when the canvas calls of one layer throw during a tick, no
\* exception leaves the tick and the layers after it are still drawn: in
\* particular the caption, the last layer, whenever it is switched on.
C17_LayerFailureIsContained ==
  (lastOp.op = "drawFrame" /\ drawn # << >>)
    => /\ ~Threw(drawn)
       /\ (captionRef.enabled /\ captionRef.text # "") => HasLayer("caption")

\* C18: the draw calls of a tick come in the order background, source
\* canvases, cursor, camera, caption; a caption draw never precedes a
\* camera draw.
C18_LayerOrder ==
  LET Rank(layer) ==
        CASE layer = "background" -> 1
          [] layer = "source" -> 2
          [] layer = "cursor" -> 3
          [] layer = "camera" -> 4
          [] layer = "caption" -> 5
  IN lastOp.op = "drawFrame"
       => \A i \in 1..Len(drawn) : \A j \in (i + 1)..Len(drawn) :
            /\ Rank(drawn[i].layer) <= Rank(drawn[j].layer)
            /\ ~(drawn[i].layer = "caption" /\ drawn[j].layer = "camera")

C18_Witness ==
  /\ lastOp.op = "drawFrame"
  /\ Len(drawn) = MaxCanvases + 4
  /\ drawn[Len(drawn) - 1] = Draw("camera", 0, "drawn")
  /\ drawn[Len(drawn)] = Draw("caption", 0, "drawn")

C20_ResumeKeepsStartRate ==
  (lastOp.op = "resume" /\ isRecording /\ ~isPaused
     /\ mediaRecorderRef # 0 /\ frameIntervalRef # 0)
    => frameClosure[frameIntervalRef].fps = recFps[mediaRecorderRef]

\* C21: a pause() or a resume() leaves the chunk list, the start
\* timestamp, the negotiated MIME type, the recording canvas and the
\* encoder instance as they were, and with them everything of the session
\* but the frame interval, the encoder's state and isPaused.
C21_PauseResumeTouchOnlyFrames ==
  [][ lastOp'.op \in {"pause", "resume"}
        => UNCHANGED << chunksRef, startTimeRef, mimeType, recordingCanvasRef,
                        mediaRecorderRef, recMime, isRecording, duration,
                        recordedBlob, pausedDurationRef, durationIntervalRef,
                        durationTimers, emitted, stopPending >> ]_vars

C21_Witness ==
  /\ lastOp.op = "resume"
  /\ isRecording /\ ~isPaused
  /\ frameIntervalRef # 0
  /\ chunksRef # << >>
  /\ now > startTimeRef

\* C23: the artifact an encoder's stop event sets belongs to that
\* encoder's session: the encoder is the session's current one and every
\* chunk of the artifact was emitted by it.
C23_ArtifactOfOwnSession ==
  lastOp.op = "onstop"
    => /\ lastOp.sess = mediaRecorderRef
       /\ \A i \in 1..Len(recordedBlob.chunks) :
            recordedBlob.chunks[i].sess = lastOp.sess

\* C24: exactly one frame interval is live while the session is Recording
\* and not Paused, none otherwise, and no duration interval is live while
\* the session is not Recording.
C24_TimerCount ==
  /\ Cardinality(frameTimers) = (IF isRecording /\ ~isPaused THEN 1 ELSE 0)
  /\ ~isRecording => durationTimers = {}

\* C26: a start() that fails at the construction of its encoder leaves
\* the session as it was and leaves nothing behind: no new interval, no
\* encoder, no change of the reported state.
C26_FailedStartLeavesNothing ==
  [][ lastOp'.op = "startThrow"
        => UNCHANGED << isRecording, isPaused, duration, recordedBlob,
                        mimeType, mediaRecorderRef, frameIntervalRef,
                        durationIntervalRef, frameTimers, durationTimers,
                        recState >> ]_vars

\* C22: the callback of a clear timeout erases only the completed sentence
\* of the result that armed it, never a newer text; and a completed
\* sentence on show is erased unless a newer result arrives first.
C22_CaptionsAutoClear ==
  /\ [][ lastOp'.op = "captionTimeout"
           => transcript \in {NoText, Final(lastOp'.sess)} ]_vars
  /\ \A n \in 1..MaxResults :
       (transcript = Final(n) /\ results = n)
         ~> (transcript = NoText \/ results > n)

\* a second completed sentence cancelled the first one's timeout and was
\* then erased by its own
C22_Witness ==
  /\ lastOp = [op |-> "captionTimeout", sess |-> 2]
  /\ transcript = NoText
  /\ clearTimers = {}

\* C29: at most one recognition object is running, and the end event of an
\* object that start() aborted or stop() stopped does not start it again.
C29_OneRecognitionNoRestart ==
  /\ Cardinality({ i \in Instances : recogState[i] = "running" }) <= 1
  /\ lastOp.op = "onendRestart" => lastOp.sess \notin halted

\* C28: the background rectangle of a caption lies inside the buffer
\* (lengths in tenths of a pixel).
C28_CaptionBoxInsideBuffer ==
  lastOp.op = "drawCaption"
    => /\ captionBox.boxX >= 0
       /\ captionBox.boxY >= 0
       /\ captionBox.boxX + captionBox.boxWidth <= 10 * captionInput.width
       /\ captionBox.boxY + captionBox.boxHeight <= 10 * captionInput.height

\* C30: once stopCamera() has run and no camera request is pending, no
\* acquired stream has live tracks while cameraEnabled is false; and
\* cameraEnabled is true exactly when cameraStream is set.
C30_StoppedCameraHoldsNoStream ==
  /\ (lastOp.op = "stopCamera" /\ cameraPending = {} /\ ~cameraEnabled)
       => liveTracks = {}
  /\ cameraEnabled <=> cameraStream # 0

\* C25: a tick of a Recording session, the first and only one started, that
\* composes a frame draws the camera bubble exactly when, at that tick, the
\* camera is enabled, a camera video exists and camera-in-recording is on.
C25_TickUsesCurrentCameraState ==
  (lastOp.op = "drawFrame" /\ drawn # << >> /\ isRecording /\ ~isPaused
     /\ starts = 1 /\ frameTimers = {frameIntervalRef})
    => (HasLayer("camera")
          <=> CameraActive(settings, cameraEnabled, cameraVideoRef))

\* C27: while the session is Recording or Paused, no operation of the page
\* (select area, confirm, cancel, new recording) changes the confirmed
\* region.
C27_RegionFixedWhileRecording ==
  [][ (isRecording
         /\ lastOp'.op \in {"selectArea", "confirmArea", "cancelArea",
                            "newRecording"})
        => confirmedSelection' = confirmedSelection ]_vars

==========================================================================
